---- MODULE Spec2Model ----
(***************************************************************************)
(* Serial data capture: serbinlog.py (binary records framed by a 4-byte    *)
(* start sequence) and serlog.py (newline-terminated text lines).          *)
(*                                                                         *)
(* The serial link is the environment.  `stream` holds the bytes the link  *)
(* delivers before it goes silent; `pos` is how many of them the program   *)
(* has consumed.  A read that finds the link silent returns what arrived   *)
(* within the timeout (pyserial's read/readline return short data on a     *)
(* read timeout, they do not raise).  Text (the local `s`, the output      *)
(* file, the console) is a sequence of one-character strings.              *)
(***************************************************************************)
EXTENDS Integers, Sequences, FiniteSets, TLC

VARIABLES
    variant,   \* "bin": serbinlog.py, "line": serlog.py
    optPort,   \* opt.port
    verbose,   \* opt.verbose
    stream,    \* bytes the link delivers before going silent
    pos,       \* number of bytes of stream consumed so far
    pc,        \* position of the program
    status,    \* how the process ended ("running" while it has not)
    ser,       \* the serial port handle: "none", "open", "closed"
    opfile,    \* the output file handle: "none", "open", "closed"
    out,       \* contents of the output file
    console,   \* records echoed by `print s`, in order
    index,     \* waitForStart's cursor into START_SEQ
    s,         \* the local s of the logging loop
    raised,    \* the exception that is propagating or ended the loop
    units,     \* history: the raw units (payloads, lines) read so far
    timedOut,  \* history: a read found the link silent
    idle,      \* history: number of reads that returned nothing at all
    twin       \* history: what was observed of this session, and of the
               \* same session run before with the verbose flag the other way

vars == <<variant, optPort, verbose, stream, pos, pc, status, ser, opfile,
          out, console, index, s, raised, units, timedOut, idle, twin>>

----------------------------------------------------------------------------
(* Bounds of the model *)

MaxFrames == 2       \* complete frames in a binary stream
MaxGarbage == 2      \* bytes of garbage before the first frame
MaxLineStream == 5   \* characters in a text stream
MaxIdle == 2         \* empty reads the line copier is followed through
MaxSyncLen == 8      \* bytes of a stream given to waitForStart alone

----------------------------------------------------------------------------
(* serbinlog.py: constants and pure parts *)

\* a start sequence whose first byte comes again after a different one
START_SEQ_MIXED == <<255, 255, 0, 255>>

START_SEQ == <<255, 255, 255, 255>>

RECORD_LEN == 8

Digits == <<"0", "1", "2", "3", "4", "5", "6", "7", "8", "9">>

\* '<H': two bytes, least significant first
U16(b0, b1) == b0 + b1 * 256

\* the record unpacked most significant byte first ('>LHH')
UnpackBigEndian(data) ==
    [ts |-> <<data[2] + data[1] * 256, data[4] + data[3] * 256>>,
     v1 |-> data[6] + data[5] * 256,
     v2 |-> data[8] + data[7] * 256]

\* the timestamp unpacked as a 16-bit field: its high half is lost
UnpackShortTs(data) ==
    [ts |-> <<0, data[1] + data[2] * 256>>,
     v1 |-> data[5] + data[6] * 256,
     v2 |-> data[7] + data[8] * 256]

\* struct.unpack('<LHH', data).  The uint32 exceeds TLC's 32-bit signed
\* integers, so ts is held as its two 16-bit halves <<high, low>>.
Unpack(data) ==
    [ts |-> <<U16(data[3], data[4]), U16(data[1], data[2])>>,
     v1 |-> U16(data[5], data[6]),
     v2 |-> U16(data[7], data[8])]

\* '{:d}' of a value below 2^16
RECURSIVE Dec(_)
Dec(n) ==
    IF n < 10 THEN <<Digits[n + 1]>>
    ELSE Dec(n \div 10) \o <<Digits[(n % 10) + 1]>>

\* '{:d}' of hi * 65536 + lo, by long division by ten
RECURSIVE Dec32(_, _)
Dec32(hi, lo) ==
    IF hi = 0 THEN Dec(lo)
    ELSE LET t == (hi % 10) * 65536 + lo
         IN  Dec32(hi \div 10, t \div 10) \o <<Digits[(t % 10) + 1]>>

\* '{:d},{:d},{:d}'.format(ts, v1, v2)
FormatRecord(rec) ==
    Dec32(rec.ts[1], rec.ts[2]) \o <<",">> \o Dec(rec.v1) \o <<",">> \o Dec(rec.v2)

\* the cursor kept, not reset, on a byte that does not match
NextIndexNoReset(i, data) ==
    IF data # START_SEQ[i + 1] THEN i ELSE i + 1

\* waitForStart's cursor after comparing one byte
NextIndex(i, data) ==
    IF data # START_SEQ[i + 1] THEN 0 ELSE i + 1

\* ser.read(n): the next n bytes, fewer when the link goes silent first
SerRead(n) ==
    SubSeq(stream, pos + 1, IF pos + n <= Len(stream) THEN pos + n ELSE Len(stream))

----------------------------------------------------------------------------
(* serlog.py: pure parts *)

Whitespace == {" ", "\t", "\n", "\r", "\f"}

RECURSIVE LStrip(_)
LStrip(t) ==
    IF t # <<>> /\ Head(t) \in Whitespace THEN LStrip(Tail(t)) ELSE t

RECURSIVE RStrip(_)
RStrip(t) ==
    IF t # <<>> /\ t[Len(t)] \in Whitespace
    THEN RStrip(SubSeq(t, 1, Len(t) - 1)) ELSE t

\* s.rstrip(): only the trailing whitespace removed
StripTrailing(t) == RStrip(t)

\* s.strip()
Strip(t) == RStrip(LStrip(t))

\* ser.readline(): up to and including the next "\n", or what arrived
\* before the link went silent
SerReadLine ==
    LET ends == {i \in (pos + 1)..Len(stream) : stream[i] = "\n"}
        last == IF ends = {} THEN Len(stream)
                ELSE CHOOSE i \in ends : \A j \in ends : i <= j
    IN  SubSeq(stream, pos + 1, last)

\* serbinlog.py imports traceback, serlog.py does not
HasTraceback == variant = "bin"

----------------------------------------------------------------------------
(* Input streams *)

RECURSIVE SeqsUpTo(_, _)
SeqsUpTo(S, n) ==
    IF n = 0 THEN {<<>>}
    ELSE LET shorter == SeqsUpTo(S, n - 1)
         IN  shorter \cup {Append(q, x) : q \in {r \in shorter : Len(r) = n - 1}, x \in S}

Payloads ==
    { <<0, 0, 0, 0, 1, 0, 2, 0>>,
      <<255, 255, 255, 255, 255, 255, 255, 255>>,
      <<16, 39, 0, 128, 0, 1, 10, 255>> }

Frame(p) == START_SEQ \o p

RECURSIVE Flatten(_)
Flatten(qs) == IF qs = <<>> THEN <<>> ELSE Head(qs) \o Flatten(Tail(qs))

FrameStreams ==
    {Flatten([k \in 1..Len(ps) |-> Frame(ps[k])]) : ps \in SeqsUpTo(Payloads, MaxFrames)}

\* what arrives of one more frame before the link goes silent
Tails ==
    {SubSeq(Frame(p), 1, n) : p \in Payloads, n \in {0, 2, 4, 7, 11}}

BinStreams ==
    {g \o f \o t : g \in SeqsUpTo({0, 255}, MaxGarbage), f \in FrameStreams, t \in Tails}

LineStreams == SeqsUpTo({"a", " ", "\n"}, MaxLineStream)

----------------------------------------------------------------------------
(* The session driver: main() of both programs *)

\* no second run is followed
NoTwin == [run |-> 0, first |-> <<>>, trace |-> <<>>]

LoopPcs == {"loop", "waitForStart", "payload", "readline", "echo", "write", "writeNL"}

Init ==
    /\ variant \in {"bin", "line"}
    /\ optPort \in {"", "/dev/ttyUSB0"}
    /\ verbose \in BOOLEAN
    /\ \/ variant = "bin" /\ stream \in BinStreams
       \/ variant = "line" /\ stream \in LineStreams
    /\ pos = 0
    /\ pc = "parse"
    /\ status = "running"
    /\ ser = "none"
    /\ opfile = "none"
    /\ out = <<>>
    /\ console = <<>>
    /\ index = 0
    /\ s = <<>>
    /\ raised = "none"
    /\ units = <<>>
    /\ timedOut = FALSE
    /\ idle = 0
    /\ twin = NoTwin

\* the check of the port option left out
ParseArgsNoCheck ==
    /\ pc = "parse"
    /\ pc' = "openPort"
    /\ UNCHANGED <<twin, variant, optPort, verbose, stream, pos, status, ser, opfile,
                   out, console, index, s, raised, units, timedOut, idle>>

\* opt, args = p.parse_args(...); if opt.port == '': p.error(...)
ParseArgs ==
    /\ pc = "parse"
    /\ IF optPort = ""
       THEN pc' = "exited" /\ status' = "usage"
       ELSE pc' = "openPort" /\ status' = status
    /\ UNCHANGED <<twin, variant, optPort, verbose, stream, pos, ser, opfile, out,
                   console, index, s, raised, units, timedOut, idle>>

\* ser = serial.Serial(opt.port, opt.baud, timeout=10)
OpenPort ==
    /\ pc = "openPort"
    /\ \/ ser' = "open" /\ pc' = "openFile" /\ status' = status
       \/ ser' = ser /\ pc' = "exited" /\ status' = "exit1"
    /\ UNCHANGED <<twin, variant, optPort, verbose, stream, pos, opfile, out,
                   console, index, s, raised, units, timedOut, idle>>

\* the failure to open the file reported but not ended on
OpenFileCarryOn ==
    /\ pc = "openFile"
    /\ \/ opfile' = "open" /\ out' = <<>>
       \/ opfile' = opfile /\ out' = out
    /\ pc' = "loop"
    /\ UNCHANGED <<twin, variant, optPort, verbose, stream, pos, status, ser,
                   console, index, s, raised, units, timedOut, idle>>

\* opfile = open(opt.filename, 'w')
OpenFile ==
    /\ pc = "openFile"
    /\ \/ opfile' = "open" /\ out' = <<>> /\ pc' = "loop" /\ status' = status
       \/ opfile' = opfile /\ out' = out /\ pc' = "exited" /\ status' = "exit1"
    /\ UNCHANGED <<twin, variant, optPort, verbose, stream, pos, ser,
                   console, index, s, raised, units, timedOut, idle>>

\* while True: try: s = readRecord(ser)  /  s = ser.readline()
LoopTop ==
    /\ pc = "loop"
    /\ IF variant = "bin"
       THEN pc' = "waitForStart" /\ index' = 0
       ELSE pc' = "readline" /\ index' = index
    /\ UNCHANGED <<twin, variant, optPort, verbose, stream, pos, status, ser, opfile,
                   out, console, s, raised, units, timedOut, idle>>

\* waitForStart returning one match too late (index > len(START_SEQ))
WaitForStartLate ==
    /\ pc = "waitForStart"
    /\ IF pos < Len(stream)
       THEN LET data == SerRead(1)[1]
                next == NextIndex(index, data)
            IN  /\ pos' = pos + 1
                /\ index' = next
                /\ pc' = IF next > Len(START_SEQ) THEN "payload" ELSE "waitForStart"
                /\ UNCHANGED <<raised, timedOut, idle>>
       ELSE /\ pc' = "except"
            /\ raised' = "TypeError"
            /\ timedOut' = TRUE
            /\ idle' = idle + 1
            /\ UNCHANGED <<pos, index>>
    /\ UNCHANGED <<twin, variant, optPort, verbose, stream, status, ser, opfile, out,
                   console, s, units>>

\* one turn of waitForStart's loop: read a byte, compare, advance or reset
WaitForStart ==
    /\ pc = "waitForStart"
    /\ IF pos < Len(stream)
       THEN LET data == SerRead(1)[1]
                next == NextIndex(index, data)
            IN  /\ pos' = pos + 1
                /\ index' = next
                /\ pc' = IF next = Len(START_SEQ) THEN "payload" ELSE "waitForStart"
                /\ UNCHANGED <<raised, timedOut, idle>>
       ELSE \* ser.read(1) returns '' and ord('') raises TypeError
            /\ pc' = "except"
            /\ raised' = "TypeError"
            /\ timedOut' = TRUE
            /\ idle' = idle + 1
            /\ UNCHANGED <<pos, index>>
    /\ UNCHANGED <<twin, variant, optPort, verbose, stream, status, ser, opfile, out,
                   console, s, units>>

\* the record read with its last byte left in the stream
ReadPayloadPushBack ==
    /\ pc = "payload"
    /\ LET data == SerRead(RECORD_LEN)
       IN  /\ pos' = pos + Len(data) - 1
           /\ IF Len(data) = RECORD_LEN
              THEN /\ s' = FormatRecord(Unpack(data))
                   /\ units' = Append(units, data)
                   /\ pc' = "echo"
                   /\ UNCHANGED <<raised, timedOut>>
              ELSE /\ pc' = "except"
                   /\ raised' = "struct.error"
                   /\ timedOut' = TRUE
                   /\ UNCHANGED <<s, units>>
           /\ idle' = IF data = <<>> THEN idle + 1 ELSE idle
    /\ UNCHANGED <<twin, variant, optPort, verbose, stream, status, ser, opfile, out,
                   console, index>>

\* the rest of readRecord: read the record, unpack it, format it
ReadPayload ==
    /\ pc = "payload"
    /\ LET data == SerRead(RECORD_LEN)
       IN  /\ pos' = pos + Len(data)
           /\ IF Len(data) = RECORD_LEN
              THEN /\ s' = FormatRecord(Unpack(data))
                   /\ units' = Append(units, data)
                   /\ pc' = "echo"
                   /\ UNCHANGED <<raised, timedOut>>
              ELSE \* struct.unpack raises struct.error
                   /\ pc' = "except"
                   /\ raised' = "struct.error"
                   /\ timedOut' = TRUE
                   /\ UNCHANGED <<s, units>>
           /\ idle' = IF data = <<>> THEN idle + 1 ELSE idle
    /\ UNCHANGED <<twin, variant, optPort, verbose, stream, status, ser, opfile, out,
                   console, index>>

\* s = ser.readline(); s = s.strip()
ReadLine ==
    /\ pc = "readline"
    /\ LET raw == SerReadLine
       IN  /\ raw = <<>> => idle < MaxIdle
           /\ pos' = pos + Len(raw)
           /\ s' = Strip(raw)
           /\ units' = Append(units, raw)
           /\ timedOut' = (timedOut \/ raw = <<>> \/ raw[Len(raw)] # "\n")
           /\ idle' = IF raw = <<>> THEN idle + 1 ELSE idle
    /\ pc' = "echo"
    /\ UNCHANGED <<twin, variant, optPort, verbose, stream, status, ser, opfile, out,
                   console, index, raised>>

\* the record written only when it is not echoed
EchoOrWrite ==
    /\ pc = "echo"
    /\ console' = IF verbose THEN Append(console, s) ELSE console
    /\ pc' = IF verbose THEN "writeNL" ELSE "write"
    /\ UNCHANGED <<twin, variant, optPort, verbose, stream, pos, status, ser, opfile,
                   out, index, s, raised, units, timedOut, idle>>

\* if opt.verbose: print s
Echo ==
    /\ pc = "echo"
    /\ console' = IF verbose THEN Append(console, s) ELSE console
    /\ pc' = "write"
    /\ UNCHANGED <<twin, variant, optPort, verbose, stream, pos, status, ser, opfile,
                   out, index, s, raised, units, timedOut, idle>>

\* opfile.write(s)
WriteRecord ==
    /\ pc = "write"
    /\ out' = out \o s
    /\ pc' = "writeNL"
    /\ UNCHANGED <<twin, variant, optPort, verbose, stream, pos, status, ser, opfile,
                   console, index, s, raised, units, timedOut, idle>>

\* the newline left out
WriteNewlineMissing ==
    /\ pc = "writeNL"
    /\ pc' = "loop"
    /\ UNCHANGED <<twin, variant, optPort, verbose, stream, pos, status, ser, opfile,
                   out, console, index, s, raised, units, timedOut, idle>>

\* opfile.write('\n')
WriteNewline ==
    /\ pc = "writeNL"
    /\ out' = out \o <<"\n">>
    /\ pc' = "loop"
    /\ UNCHANGED <<twin, variant, optPort, verbose, stream, pos, status, ser, opfile,
                   console, index, s, raised, units, timedOut, idle>>

\* the link fails: ser.read / ser.readline raises SerialException
SerialFault ==
    /\ pc \in {"waitForStart", "payload", "readline"}
    /\ raised' = "SerialException"
    /\ pc' = "except"
    /\ UNCHANGED <<twin, variant, optPort, verbose, stream, pos, status, ser, opfile,
                   out, console, index, s, units, timedOut, idle>>

\* the disk fails: opfile.write raises IOError
WriteFault ==
    /\ pc \in {"write", "writeNL"}
    /\ raised' = "IOError"
    /\ pc' = "except"
    /\ UNCHANGED <<twin, variant, optPort, verbose, stream, pos, status, ser, opfile,
                   out, console, index, s, units, timedOut, idle>>

\* the process is interrupted inside the loop: KeyboardInterrupt is no
\* Exception, neither except clause catches it and main() is left
Interrupt ==
    /\ pc \in LoopPcs
    /\ raised' = "KeyboardInterrupt"
    /\ pc' = "exited"
    /\ status' = "traceback"
    /\ UNCHANGED <<twin, variant, optPort, verbose, stream, pos, ser, opfile,
                   out, console, index, s, units, timedOut, idle>>

\* the handlers ending in continue instead of break
ExceptContinue ==
    /\ pc = "except"
    /\ pc' = "loop"
    /\ UNCHANGED <<twin, variant, optPort, verbose, stream, pos, status, ser, opfile,
                   out, console, index, s, raised, units, timedOut, idle>>

\* except serial.SerialTimeoutException: break
\* except Exception as e: print ...; print(traceback.format_exc()); break
Except ==
    /\ pc = "except"
    /\ IF raised = "SerialTimeoutException" \/ HasTraceback
       THEN pc' = "close" /\ raised' = raised /\ status' = status
       ELSE \* traceback is not defined: NameError leaves the handler and main()
            pc' = "exited" /\ raised' = "NameError" /\ status' = "traceback"
    /\ UNCHANGED <<twin, variant, optPort, verbose, stream, pos, ser, opfile,
                   out, console, index, s, units, timedOut, idle>>

\* opfile.close()
Close ==
    /\ pc = "close"
    /\ opfile' = "closed"
    /\ pc' = "exited"
    /\ status' = "done"
    /\ UNCHANGED <<twin, variant, optPort, verbose, stream, pos, ser,
                   out, console, index, s, raised, units, timedOut, idle>>

Next ==
    \/ ParseArgs
    \/ OpenPort
    \/ OpenFile
    \/ LoopTop
    \/ WaitForStart
    \/ ReadPayload
    \/ ReadLine
    \/ Echo
    \/ WriteRecord
    \/ WriteNewline
    \/ SerialFault
    \/ WriteFault
    \/ Interrupt
    \/ Except
    \/ Close

Spec == Init /\ [][Next]_vars

----------------------------------------------------------------------------
(* waitForStart on its own: entered with an arbitrary stream ahead *)

SyncBytes == {0, 1, 255}

InLoop(v, st) ==
    /\ variant = v
    /\ optPort = "/dev/ttyUSB0"
    /\ verbose = FALSE
    /\ stream = st
    /\ pos = 0
    /\ pc = "waitForStart"
    /\ status = "running"
    /\ ser = "open"
    /\ opfile = "open"
    /\ out = <<>>
    /\ console = <<>>
    /\ index = 0
    /\ s = <<>>
    /\ raised = "none"
    /\ units = <<>>
    /\ timedOut = FALSE
    /\ idle = 0
    /\ twin = NoTwin

InitSync == \E st \in SeqsUpTo(SyncBytes, MaxSyncLen) : InLoop("bin", st)

NextSync == WaitForStart

SpecSync == InitSync /\ [][NextSync]_vars

----------------------------------------------------------------------------
(* readRecord on its own: one frame with an arbitrary payload ahead *)

DecodeBytes == {0, 1, 255}

InitDecode == \E p \in [1..RECORD_LEN -> DecodeBytes] : InLoop("bin", Frame(p))

NextDecode ==
    \/ WaitForStart
    \/ ReadPayload

SpecDecode == InitDecode /\ [][NextDecode]_vars

----------------------------------------------------------------------------
(* Reading text back, for the statements below *)

Min(S) == CHOOSE i \in S : \A j \in S : i <= j

\* the positions at which an occurrence of START_SEQ ends
SentinelEnds(st) ==
    {i \in Len(START_SEQ)..Len(st) : SubSeq(st, i - Len(START_SEQ) + 1, i) = START_SEQ}

\* the pieces of t between occurrences of sep
RECURSIVE SplitAt(_, _)
SplitAt(t, sep) ==
    LET at == {i \in 1..Len(t) : t[i] = sep}
    IN  IF at = {} THEN <<t>>
        ELSE <<SubSeq(t, 1, Min(at) - 1)>> \o SplitAt(SubSeq(t, Min(at) + 1, Len(t)), sep)

IsDecimal(f) ==
    /\ Len(f) >= 1
    /\ \A i \in 1..Len(f) : \E d \in 1..10 : f[i] = Digits[d]
    /\ Len(f) > 1 => f[1] # "0"

DigitVal(c) == (CHOOSE d \in 1..10 : Digits[d] = c) - 1

\* the number a decimal numeral denotes, as <<n \div 65536, n % 65536>>
RECURSIVE ValueHL(_)
ValueHL(f) ==
    IF f = <<>> THEN <<0, 0>>
    ELSE LET v == ValueHL(SubSeq(f, 1, Len(f) - 1))
             t == v[2] * 10 + DigitVal(f[Len(f)])
         IN  <<v[1] * 10 + t \div 65536, t % 65536>>

----------------------------------------------------------------------------
(* C1: on every stream that holds four contiguous 0xFF bytes, waitForStart
   returns, and it returns having consumed exactly the bytes up to and
   including the last byte of the earliest such run, whatever precedes it. *)
C1_SyncAfterFirstSentinel ==
    LET ends == SentinelEnds(stream)
    IN  /\ ends # {} => (pc # "except" /\ pos <= Min(ends))
        /\ pc = "payload" => (ends # {} /\ pos = Min(ends))

C1_Witness ==
    /\ stream = <<255, 255, 0, 255, 255, 255, 255>>
    /\ pc = "payload"
    /\ pos = 7

(* C2: readRecord returns "<timestamp>,<v1>,<v2>": three decimal numerals
   without leading zeros, separated by commas, nothing else, denoting
   b0 + b1*256 + b2*65536 + b3*16777216, b4 + b5*256 and b6 + b7*256;
   the frame FF FF FF FF 00 00 00 00 01 00 02 00 gives "0,1,2". *)
C2_DecodeText ==
    pc = "echo" =>
        LET b == SubSeq(stream, Len(START_SEQ) + 1, Len(START_SEQ) + RECORD_LEN)
            f == SplitAt(s, ",")
        IN  /\ Len(f) = 3
            /\ \A k \in 1..3 : IsDecimal(f[k])
            /\ ValueHL(f[1]) = <<b[3] + b[4] * 256, b[1] + b[2] * 256>>
            /\ ValueHL(f[2]) = <<0, b[5] + b[6] * 256>>
            /\ ValueHL(f[3]) = <<0, b[7] + b[8] * 256>>
            /\ b = <<0, 0, 0, 0, 1, 0, 2, 0>> => s = <<"0", ",", "1", ",", "2">>

C2_Witness ==
    /\ pc = "echo"
    /\ stream = Frame(<<255, 255, 255, 255, 1, 0, 0, 1>>)
    /\ s = <<"4", "2", "9", "4", "9", "6", "7", "2", "9", "5", ",", "1", ",", "2", "5", "6">>

----------------------------------------------------------------------------
(* The session driver *)

FRAME_LEN == Len(START_SEQ) + RECORD_LEN

\* st is nothing but back-to-back frames
IsFrames(st) ==
    /\ Len(st) % FRAME_LEN = 0
    /\ \A k \in 0..(Len(st) \div FRAME_LEN - 1) :
          SubSeq(st, k * FRAME_LEN + 1, k * FRAME_LEN + Len(START_SEQ)) = START_SEQ

\* the payload of the k-th frame of a stream of back-to-back frames
PayloadOf(st, k) ==
    SubSeq(st, (k - 1) * FRAME_LEN + Len(START_SEQ) + 1, k * FRAME_LEN)

\* the lines of the output file; the last piece is what follows the last newline
Lines == SplitAt(out, "\n")

\* the environment injected no failure: the loop ended, if it did, on a timeout
NoFault == raised \in {"none", "TypeError", "struct.error"}

(* C3: once either session has left the logging loop and the process has
   ended - after a timeout, another I/O or decode error, or an
   interruption - the output file has been closed. *)
C3_FileClosedAfterLoop ==
    (pc = "exited" /\ opfile # "none") => opfile = "closed"

(* C4: on a stream of N back-to-back frames the binary session has, each
   time it is back at the top of the loop and when it has ended on the
   timeout, written one line per frame consumed, each ended by a single
   newline, the k-th being the text of the k-th frame; at the end N lines. *)
C4_FramesInOrder ==
    (/\ variant = "bin"
     /\ IsFrames(stream)
     /\ pc = "loop" \/ (pc = "exited" /\ raised = "TypeError")) =>
        LET n == pos \div FRAME_LEN
        IN  /\ pc = "exited" => n = Len(stream) \div FRAME_LEN
            /\ Len(Lines) = n + 1
            /\ Lines[n + 1] = <<>>
            /\ \A k \in 1..n : Lines[k] = FormatRecord(Unpack(PayloadOf(stream, k)))

C4_Witness ==
    /\ variant = "bin"
    /\ pc = "exited"
    /\ raised = "TypeError"
    /\ stream = Frame(<<0, 0, 0, 0, 1, 0, 2, 0>>) \o Frame(<<16, 39, 0, 128, 0, 1, 10, 255>>)
    /\ out = <<"0", ",", "1", ",", "2", "\n",
               "2", "1", "4", "7", "4", "9", "3", "6", "4", "8", ",",
               "2", "5", "6", ",", "6", "5", "2", "9", "0", "\n">>

(* C5: when the link goes silent after the start sequence was matched and
   before the 8 bytes of the record arrived, the file holds exactly the lines
   of the records read before, the loop is not entered again (no read is
   retried), and the session goes on to close the file and end. *)
C5_PartialFrameDropped ==
    raised = "struct.error" =>
        /\ pc \in {"except", "close", "exited"}
        /\ pc # "exited" => ENABLED Next
        /\ pc = "exited" => (status = "done" /\ opfile = "closed")
        /\ Len(Lines) = Len(units) + 1
        /\ Lines[Len(units) + 1] = <<>>
        /\ \A k \in 1..Len(units) : Lines[k] = FormatRecord(Unpack(units[k]))

C5_Witness ==
    /\ raised = "struct.error"
    /\ pc = "exited"
    /\ stream = Frame(<<0, 0, 0, 0, 1, 0, 2, 0>>) \o SubSeq(Frame(<<0, 0, 0, 0, 1, 0, 2, 0>>), 1, 7)
    /\ out = <<"0", ",", "1", ",", "2", "\n">>

(* C6: a stream that delivers nothing at all leaves an empty output file,
   closed when the process has ended, in both variants. *)
C6_SilentLinkEmptyFile ==
    (stream = <<>> /\ opfile # "none" /\ NoFault) =>
        /\ out = <<>>
        /\ pc = "exited" => opfile = "closed"

\* t is raw without its trailing whitespace
IsRightStripOf(t, raw) ==
    /\ Len(t) <= Len(raw)
    /\ t = SubSeq(raw, 1, Len(t))
    /\ \A i \in (Len(t) + 1)..Len(raw) : raw[i] \in Whitespace
    /\ t # <<>> => t[Len(t)] \notin Whitespace

\* t is raw without its leading and its trailing whitespace
IsStripOf(t, raw) ==
    \E i \in 0..Len(raw) :
        /\ \A j \in 1..i : raw[j] \in Whitespace
        /\ IsRightStripOf(t, SubSeq(raw, i + 1, Len(raw)))
        /\ t # <<>> => t[1] \notin Whitespace

(* C7 as claimed: every line is written with only its trailing whitespace
   removed, leading whitespace kept, and a single newline appended. *)
C7_OnlyTrailingStripped ==
    (variant = "line" /\ pc = "loop") =>
        /\ Len(Lines) = Len(units) + 1
        /\ Lines[Len(units) + 1] = <<>>
        /\ \A k \in 1..Len(units) : IsRightStripOf(Lines[k], units[k])

(* C7 as amended: every line read is written with its leading and its
   trailing whitespace (the terminator included) removed, the characters in
   between unchanged, and a single newline appended. *)
C7_BothEndsStripped ==
    (variant = "line" /\ pc = "loop") =>
        /\ Len(Lines) = Len(units) + 1
        /\ Lines[Len(units) + 1] = <<>>
        /\ \A k \in 1..Len(units) : IsStripOf(Lines[k], units[k])

C7_Witness ==
    /\ variant = "line"
    /\ pc = "loop"
    /\ stream = <<" ", "a", " ", "a", "\n">>
    /\ units = <<stream>>
    /\ out = <<"a", " ", "a", "\n">>

(* C8: once a read has returned nothing because the link is silent, the
   session reads nothing more and writes nothing more. *)
C8_NothingAfterTimeout ==
    [][idle > 0 => (out' = out /\ pos' = pos /\ idle' = idle)]_vars

(* C9: when the process has ended, no handle it opened is still open. *)
C9_HandlesClosed ==
    pc = "exited" => (ser # "open" /\ opfile # "open")

\* the state of the driver's state machine
Phase ==
    IF pc \in {"parse", "openPort"} THEN "Idle"
    ELSE IF pc = "openFile" THEN "Connected"
    ELSE IF pc \in LoopPcs \cup {"except"} THEN "Logging"
    ELSE "Closed"

PhaseSteps ==
    { <<"Idle", "Connected">>, <<"Connected", "Logging">>, <<"Logging", "Closed">>,
      <<"Idle", "Closed">>, <<"Connected", "Closed">> }

(* C10: the driver moves Idle -> Connected -> Logging -> Closed and, on a
   failure to open, from Idle or Connected straight to Closed, nowhere else;
   no file is opened unless the port was, the loop is entered only with both
   open, and nothing is read from the stream before the loop. *)
C10_DriverStateMachine ==
    /\ [][Phase' = Phase \/ <<Phase, Phase'>> \in PhaseSteps]_vars
    /\ [](/\ ser = "none" => opfile = "none"
          /\ Phase = "Connected" => (ser = "open" /\ opfile = "none")
          /\ Phase = "Logging" => (ser = "open" /\ opfile = "open")
          /\ opfile = "none" => (pos = 0 /\ units = <<>> /\ out = <<>>))

C10_Witness ==
    /\ pc = "exited"
    /\ status = "exit1"
    /\ ser = "open"
    /\ opfile = "none"
    /\ pos = 0

(* C11: after the first error of any kind inside the logging loop - a read
   that timed out or came back short, a decode error, a write error -
   nothing more is read from the stream and nothing more is written. *)
C11_NothingAfterFirstError ==
    [][(raised # "none" \/ timedOut) =>
          (pos' = pos /\ units' = units /\ out' = out)]_vars

\* the two bytes of a 16-bit value, least significant first
Bytes16(n) == <<n % 256, n \div 256>>

\* the record a line of output denotes, packed again as '<LHH'
Repack(text) ==
    LET f == SplitAt(text, ",")
        ts == ValueHL(f[1])
    IN  Bytes16(ts[2]) \o Bytes16(ts[1]) \o Bytes16(ValueHL(f[2])[2])
            \o Bytes16(ValueHL(f[3])[2])

(* C12: the line readRecord returns determines the payload: packing the
   three numbers it shows as little-endian uint32, uint16, uint16 gives back
   the 8 bytes that were read, so no two payloads give the same line. *)
C12_RoundTrip ==
    pc = "echo" =>
        Repack(s) = SubSeq(stream, Len(START_SEQ) + 1, Len(START_SEQ) + RECORD_LEN)

C12_Witness ==
    /\ pc = "echo"
    /\ stream = Frame(<<1, 0, 255, 255, 0, 255, 255, 1>>)
    /\ Repack(s) = <<1, 0, 255, 255, 0, 255, 255, 1>>

(* C13: with the port option missing the process reports the usage error
   and ends at once: neither the port nor the file is opened, nothing is
   read, nothing is written or echoed. *)
C13_MissingPortOpensNothing ==
    optPort = "" =>
        /\ pc \in {"parse", "exited"}
        /\ pc = "exited" => status = "usage"
        /\ ser = "none" /\ opfile = "none"
        /\ pos = 0 /\ units = <<>> /\ out = <<>> /\ console = <<>>

C13_Witness ==
    /\ optPort = ""
    /\ pc = "exited"
    /\ status = "usage"
    /\ ser = "none"

(* C14: every byte waitForStart reads is handled in one of two ways: equal
   to START_SEQ[index], the cursor advances by one and the function returns
   exactly when it reaches len(START_SEQ); not equal, the cursor goes back
   to 0, whatever the byte, and the function reads on.  Every call starts
   with the cursor at 0. *)
C14_TwoWayStep ==
    /\ [][(pc = "waitForStart" /\ pos' # pos) =>
             /\ pos' = pos + 1
             /\ IF stream[pos + 1] = START_SEQ[index + 1]
                THEN /\ index' = index + 1
                     /\ pc' = IF index' = Len(START_SEQ) THEN "payload" ELSE "waitForStart"
                ELSE /\ index' = 0
                     /\ pc' = "waitForStart"]_vars
    /\ [][(pc # "waitForStart" /\ pc' = "waitForStart") => index' = 0]_vars

C14_Witness ==
    /\ variant = "bin"
    /\ pc = "waitForStart"
    /\ stream = <<255, 0>> \o Frame(<<0, 0, 0, 0, 1, 0, 2, 0>>)
    /\ pos = 2
    /\ index = 0

\* a matcher that tests a byte that does not match against START_SEQ[0] again
NextIndexRetest(i, data) ==
    IF data = START_SEQ[i + 1] THEN i + 1
    ELSE IF data = START_SEQ[1] THEN 1 ELSE 0

\* where that matcher stands after the bytes of st from position p on
RECURSIVE RetestRun(_, _, _)
RetestRun(st, p, i) ==
    IF p = Len(st) THEN [pos |-> p, index |-> i, found |-> FALSE]
    ELSE LET n == NextIndexRetest(i, st[p + 1])
         IN  IF n = Len(START_SEQ) THEN [pos |-> p + 1, index |-> n, found |-> TRUE]
             ELSE RetestRun(st, p + 1, n)

(* C15: with the configured start sequence waitForStart goes in step with
   the matcher that tests a mismatching byte against START_SEQ[0] again:
   after every byte both have the same cursor, they return after the same
   byte, and on a stream without the sequence both run to its end. *)
C15_SameAsRetest ==
    LET r == RetestRun(SubSeq(stream, 1, pos), 0, 0)
        e == RetestRun(stream, 0, 0)
    IN  /\ r.pos = pos
        /\ r.index = index
        /\ r.found <=> pc = "payload"
        /\ pc = "payload" => (e.found /\ e.pos = pos /\ e.index = index)
        /\ pc = "except" => (~e.found /\ e.pos = pos /\ e.index = index)

C15_Witness ==
    /\ stream = <<255, 255, 255, 0, 255, 255, 255, 255>>
    /\ pc = "payload"
    /\ pos = 8

(* C16: on a stream of back-to-back frames the synchronizer consumes the
   four bytes of each start sequence and nothing of a payload: every record
   read is its frame's own 8 bytes, whatever 0xFF bytes they hold, and every
   line written is the text of its frame's payload. *)
C16_FramingNeverSlips ==
    (variant = "bin" /\ IsFrames(stream)) =>
        /\ \A k \in 1..Len(units) : units[k] = PayloadOf(stream, k)
        /\ pc = "payload" => pos = Len(units) * FRAME_LEN + Len(START_SEQ)
        /\ pc \in {"echo", "write", "writeNL", "loop"} => pos = Len(units) * FRAME_LEN
        /\ pc = "echo" => s = FormatRecord(Unpack(PayloadOf(stream, Len(units))))
        /\ \A k \in 1..(Len(Lines) - 1) :
              k <= Len(units) /\ Lines[k] = FormatRecord(Unpack(PayloadOf(stream, k)))

C16_Witness ==
    /\ variant = "bin"
    /\ pc = "loop"
    /\ stream = Frame(<<255, 255, 255, 255, 255, 255, 255, 255>>) \o Frame(<<16, 39, 0, 128, 0, 1, 10, 255>>)
    /\ pos = 2 * FRAME_LEN
    /\ units = <<PayloadOf(stream, 1), PayloadOf(stream, 2)>>
    /\ Len(Lines) = 3

\* how many of the last bytes of pre are the first bytes of START_SEQ
MatchedRun(pre) ==
    LET fits == {k \in 0..Len(START_SEQ) :
                    /\ k <= Len(pre)
                    /\ SubSeq(pre, Len(pre) - k + 1, Len(pre)) = SubSeq(START_SEQ, 1, k)}
    IN  CHOOSE k \in fits : \A j \in fits : j <= k

(* C17: whenever waitForStart is about to compare a byte, the cursor is at
   least 0 and below len(START_SEQ), and it is the length of the run of
   matching bytes consumed just before. *)
C17_CursorInRange ==
    pc = "waitForStart" =>
        /\ index \in 0..(Len(START_SEQ) - 1)
        /\ index = MatchedRun(SubSeq(stream, 1, pos))

C17_Witness ==
    /\ pc = "waitForStart"
    /\ stream = <<255, 255, 0, 255, 255, 255, 1, 255>>
    /\ pos = 6
    /\ index = 3

----------------------------------------------------------------------------
(* The same session run twice, the second time with the verbose flag the
   other way.  After every step of the program what can be observed of it
   apart from the console is recorded; the second run is followed as long as
   it shows what the first run showed. *)

\* what is observed of the session, the verbose flag and the console apart
Obs == <<pc, pos, status, ser, opfile, out, index, s, raised, units>>

Recorded == twin.trace[Len(twin.trace)] = Obs

\* longest line stream of a session run twice
MaxVerboseLine == 4

\* binary streams of a session run twice: in step from the first byte on, or
\* after a sentinel begun and broken off
VerboseBinStreams ==
    {g \o f \o t : g \in {<<>>, <<255, 0>>}, f \in FrameStreams, t \in Tails}

VerboseLineStreams == SeqsUpTo({"a", " ", "\n"}, MaxVerboseLine)

InitVerbose ==
    /\ variant \in {"bin", "line"}
    /\ optPort \in {"", "/dev/ttyUSB0"}
    /\ verbose \in BOOLEAN
    /\ \/ variant = "bin" /\ stream \in VerboseBinStreams
       \/ variant = "line" /\ stream \in VerboseLineStreams
    /\ pos = 0
    /\ pc = "parse"
    /\ status = "running"
    /\ ser = "none"
    /\ opfile = "none"
    /\ out = <<>>
    /\ console = <<>>
    /\ index = 0
    /\ s = <<>>
    /\ raised = "none"
    /\ units = <<>>
    /\ timedOut = FALSE
    /\ idle = 0
    /\ twin = [run |-> 1, first |-> <<>>, trace |-> <<Obs>>]

\* the step just taken is recorded; in the second run only if it shows what
\* the first run showed at this step
Record ==
    /\ ~Recorded
    /\ twin.run = 2 =>
          /\ Len(twin.trace) < Len(twin.first)
          /\ twin.first[Len(twin.trace) + 1] = Obs
    /\ twin' = [twin EXCEPT !.trace = Append(@, Obs)]
    /\ UNCHANGED <<variant, optPort, verbose, stream, pos, pc, status, ser, opfile,
                   out, console, index, s, raised, units, timedOut, idle>>

\* the first run has come to its end: the session is started again on the
\* same stream with the verbose flag the other way
Rerun ==
    /\ twin.run = 1
    /\ Recorded
    /\ ~ENABLED Next
    /\ verbose' = ~verbose
    /\ pos' = 0
    /\ pc' = "parse"
    /\ status' = "running"
    /\ ser' = "none"
    /\ opfile' = "none"
    /\ out' = <<>>
    /\ console' = <<>>
    /\ index' = 0
    /\ s' = <<>>
    /\ raised' = "none"
    /\ units' = <<>>
    /\ timedOut' = FALSE
    /\ idle' = 0
    /\ twin' = [run |-> 2, first |-> twin.trace, trace |-> <<twin.trace[1]>>]
    /\ UNCHANGED <<variant, optPort, stream>>

NextVerbose ==
    \/ Recorded /\ ParseArgs
    \/ Recorded /\ OpenPort
    \/ Recorded /\ OpenFile
    \/ Recorded /\ LoopTop
    \/ Recorded /\ WaitForStart
    \/ Recorded /\ ReadPayload
    \/ Recorded /\ ReadLine
    \/ Recorded /\ Echo
    \/ Recorded /\ WriteRecord
    \/ Recorded /\ WriteNewline
    \/ Recorded /\ SerialFault
    \/ Recorded /\ WriteFault
    \/ Recorded /\ Interrupt
    \/ Recorded /\ Except
    \/ Recorded /\ Close
    \/ Record
    \/ Rerun

SpecVerbose == InitVerbose /\ [][NextVerbose]_vars

(* C18: the verbose flag shows on the console only.  Whatever a session
   does, the same session with the flag the other way can do step by step:
   same bytes in the file, same position in the stream, same end.  With the
   flag off nothing is echoed; with it on every unit is echoed at most once,
   a unit that reached the file was echoed before, with the text written. *)
C18_VerboseOnlyConsole ==
    /\ (twin.run = 2 /\ Recorded) =>
          IF Len(twin.trace) < Len(twin.first)
          THEN ENABLED (Next /\ Obs' = twin.first[Len(twin.trace) + 1])
          ELSE ~ENABLED Next
    /\ ~verbose => console = <<>>
    /\ verbose =>
          /\ Len(console) <= Len(units)
          /\ pc \in {"write", "writeNL", "loop"} => Len(console) = Len(units)
          /\ pc \in {"write", "writeNL"} => console[Len(console)] = s
          /\ \A k \in 1..(Len(Lines) - 1) : k <= Len(console) /\ console[k] = Lines[k]
          /\ Lines[Len(Lines)] # <<>> =>
                (Len(Lines) <= Len(console) /\ console[Len(Lines)] = Lines[Len(Lines)])

C18_Witness ==
    /\ twin.run = 2
    /\ Recorded
    /\ Len(twin.trace) = Len(twin.first)
    /\ verbose
    /\ variant = "bin"
    /\ pc = "exited"
    /\ status = "done"
    /\ console = <<<<"0", ",", "1", ",", "2">>>>
    /\ out = <<"0", ",", "1", ",", "2", "\n">>

====
